---- MODULE Spec2Model ----
(***************************************************************************)
(* Model of the Mental Sprint session engine (src/app/src/routes/          *)
(* +page.svelte): the screen state machine, the countdown interval, the    *)
(* feedback-delay timeouts, the problem generator, the scoring of          *)
(* submitted answers, the persisted list of game records and the           *)
(* leaderboards computed from it.                                          *)
(*                                                                         *)
(* Presentation-only state (inputClass, shaking, inputEl and the 100 ms    *)
(* focus timeout of startGame) has no effect on the modelled variables and *)
(* is left out.                                                            *)
(***************************************************************************)
EXTENDS Integers, Sequences, FiniteSets, TLC

VARIABLES
    mounted,        \* whether the onMount callback has run
    thrown,         \* the exception that left the onMount callback, "" when none
    storage,        \* localStorage['mathSprintHistory']: <<>> when absent, else <<text>>
    screen,         \* let screen
    config,         \* let config
    score,          \* let score
    timeLeft,       \* let timeLeft
    timerInterval,  \* let timerInterval: 0 stands for null, else the handle
    intervals,      \* handles of the intervals the browser has armed
    timeouts,       \* pending feedback timeouts, in scheduling order
    currentProblem, \* let currentProblem
    sessionHistory, \* let sessionHistory
    pastGames,      \* let pastGames
    userInput,      \* let userInput (bound to the answer field)
    now,            \* the value Date.now() returned when it was last read
    round,          \* history variable: number of startGame calls so far
    submitted,      \* history variable: number of parsed submissions so far
    answered,       \* history variable: parsed submissions against currentProblem
    lastToggle      \* history variable: the key of the toggleConfig call that
                    \* ran last, "" when another handler ran after it

vars == <<mounted, thrown, storage, screen, config, score, timeLeft, timerInterval,
          intervals, timeouts, currentProblem, sessionHistory, pastGames,
          userInput, now, round, submitted, answered, lastToggle>>

----------------------------------------------------------------------------
(* Program constants *)

RoundTime == 60
MaxGames == 50
CorrectDelay == 150
WrongDelay == 400

(* Bounds of the model *)

MaxRounds == 2
MaxSubmissions == 2
RandSteps == 4
MaxAttempts == 40
MaxShortList == 3

----------------------------------------------------------------------------
(* Configuration *)

OpKeys == <<"add", "sub", "mul", "div">>
ModKeys == {"negatives", "doubleDigits"}

InitialConfig ==
    [add |-> TRUE, sub |-> TRUE, mul |-> TRUE, div |-> FALSE,
     negatives |-> FALSE, doubleDigits |-> FALSE]

\* (['add','sub','mul','div']).filter(k => config[k]).length
activeOps(c) == Cardinality({i \in 1..4 : c[OpKeys[i]]})

toggleConfig_unguarded(c, key) == [c EXCEPT ![key] = ~c[key]]

toggleConfig_blocksModifiers(c, key) ==
    IF activeOps(c) = 1 /\ c[key]
    THEN c
    ELSE [c EXCEPT ![key] = ~c[key]]

toggleConfig(c, key) ==
    IF key # "negatives" /\ key # "doubleDigits" /\ activeOps(c) = 1 /\ c[key]
    THEN c
    ELSE [c EXCEPT ![key] = ~c[key]]

----------------------------------------------------------------------------
(* Problem generator *)

\* Math.floor(Math.random() * n), with Math.random() = k / RandSteps
randIndex(k, n) == (k * n) \div RandSteps

\* Math.random() > 0.5, with Math.random() = k / RandSteps
randAboveHalf(k) == 2 * k > RandSteps

opsOf(c) ==
    (IF c.add THEN <<"+">> ELSE <<>>) \o (IF c.sub THEN <<"-">> ELSE <<>>) \o
    (IF c.mul THEN <<"*">> ELSE <<>>) \o (IF c.div THEN <<"/">> ELSE <<>>)

fmt(n) == IF n < 0 THEN "(" \o ToString(n) \o ")" ELSE ToString(n)

\* the two signs are kept as the source file spells them: the UTF-8 bytes of
\* the division and the multiplication sign, read as two characters each.
\* The second character of the multiplication sign is U+2014, which a module
\* cannot hold: _ stands for it.
DivideSign == "Ã·"
TimesSign == "Ã_"

opSymbol(operator) ==
    IF operator = "/" THEN DivideSign
    ELSE IF operator = "*" THEN TimesSign ELSE operator

\* generateProblem without num1 = num1 * num2 in its case '/'
generateProblem_keepsDividend(c, kOp, k1, k2, kS1, kS2) ==
    LET ops == opsOf(c)
        operator == ops[randIndex(kOp, Len(ops)) + 1]
        max == IF c.doubleDigits THEN 99 ELSE 12
        min == IF c.doubleDigits THEN 10 ELSE 1
        d1 == randIndex(k1, max - min + 1) + min
        d2 == randIndex(k2, max - min + 1) + min
        n1 == IF c.negatives /\ randAboveHalf(kS1) THEN d1 * (-1) ELSE d1
        num2 == IF c.negatives /\ randAboveHalf(kS2) THEN d2 * (-1) ELSE d2
        num1 == n1
        answer == CASE operator = "+" -> num1 + num2
                    [] operator = "-" -> num1 - num2
                    [] operator = "*" -> num1 * num2
                    [] operator = "/" -> num1 \div num2
    IN  [question |-> fmt(num1) \o " " \o opSymbol(operator) \o " " \o fmt(num2),
         answer |-> answer]

\* draws: kOp picks the operator, k1 and k2 the operands, kS1 and kS2 the signs
generateProblem(c, kOp, k1, k2, kS1, kS2) ==
    LET ops == opsOf(c)
        operator == ops[randIndex(kOp, Len(ops)) + 1]
        max == IF c.doubleDigits THEN 99 ELSE 12
        min == IF c.doubleDigits THEN 10 ELSE 1
        d1 == randIndex(k1, max - min + 1) + min
        d2 == randIndex(k2, max - min + 1) + min
        n1 == IF c.negatives /\ randAboveHalf(kS1) THEN d1 * (-1) ELSE d1
        num2 == IF c.negatives /\ randAboveHalf(kS2) THEN d2 * (-1) ELSE d2
        num1 == IF operator = "/" THEN n1 * num2 ELSE n1
        answer == CASE operator = "+" -> num1 + num2
                    [] operator = "-" -> num1 - num2
                    [] operator = "*" -> num1 * num2
                    [] operator = "/" -> num1 \div num2
    IN  [question |-> fmt(num1) \o " " \o opSymbol(operator) \o " " \o fmt(num2),
         answer |-> answer]

Draws == 0..(RandSteps - 1)

----------------------------------------------------------------------------
(* Scoring *)

DigitChars == <<"0", "1", "2", "3", "4", "5", "6", "7", "8", "9">>
isDigit(ch) == \E d \in 1..10 : DigitChars[d] = ch
digitVal(ch) == (CHOOSE d \in 1..10 : DigitChars[d] = ch) - 1

RECURSIVE skipSpaces(_)
skipSpaces(s) ==
    IF Len(s) > 0 /\ Head(s) = " " THEN skipSpaces(Tail(s)) ELSE s

\* value of the longest prefix of digits of s, continuing from acc
RECURSIVE digitsValue(_, _)
digitsValue(s, acc) ==
    IF Len(s) > 0 /\ isDigit(Head(s))
    THEN digitsValue(Tail(s), 10 * acc + digitVal(Head(s)))
    ELSE acc

HexChars == <<"0", "1", "2", "3", "4", "5", "6", "7", "8", "9",
              "a", "b", "c", "d", "e", "f">>
HexUpper == <<"0", "1", "2", "3", "4", "5", "6", "7", "8", "9",
              "A", "B", "C", "D", "E", "F">>
isHexDigit(ch) == \E d \in 1..16 : HexChars[d] = ch \/ HexUpper[d] = ch
hexVal(ch) == (CHOOSE d \in 1..16 : HexChars[d] = ch \/ HexUpper[d] = ch) - 1

\* value of the longest prefix of hexadecimal digits of s, continuing from acc
RECURSIVE hexValue(_, _)
hexValue(s, acc) ==
    IF Len(s) > 0 /\ isHexDigit(Head(s))
    THEN hexValue(Tail(s), 16 * acc + hexVal(Head(s)))
    ELSE acc

\* parseInt(userInput), no radix given: leading blanks, an optional sign,
\* then the longest prefix of decimal digits, or of hexadecimal digits after
\* a prefix 0x or 0X; NaN when there is no digit
parseInt(s) ==
    LET t == skipSpaces(s)
        signed == Len(t) > 0 /\ (Head(t) = "-" \/ Head(t) = "+")
        unsigned == IF signed THEN Tail(t) ELSE t
        hex == /\ Len(unsigned) >= 2
               /\ Head(unsigned) = "0"
               /\ Head(Tail(unsigned)) \in {"x", "X"}
        body == IF hex THEN Tail(Tail(unsigned)) ELSE unsigned
        found == /\ Len(body) > 0
                 /\ IF hex THEN isHexDigit(Head(body)) ELSE isDigit(Head(body))
        mag == IF hex THEN hexValue(body, 0) ELSE digitsValue(body, 0)
    IN  IF found
        THEN [nan |-> FALSE, val |-> IF signed /\ Head(t) = "-" THEN 0 - mag ELSE mag]
        ELSE [nan |-> TRUE, val |-> 0]

\* sessionHistory.filter(h => h.isCorrect).length
correctCount(h) == Cardinality({i \in 1..Len(h) : h[i].isCorrect})

\* Numbers are IEEE 754 doubles.  A double other than 0 is [m, e]: m is its
\* significand, 53 bits with the most significant first, and its value is
\* m * 2^e.
Precision == 53

\* Significands are longer than the integers of the model, so the arithmetic
\* on them is done in limbs of LimbBits bits, least significant limb first.
LimbBits == 11
LimbBase == 2 ^ LimbBits

RECURSIVE intOf(_)
intOf(bits) ==
    IF bits = <<>> THEN 0
    ELSE 2 * intOf(SubSeq(bits, 1, Len(bits) - 1)) + bits[Len(bits)]

limbsOf(bits) ==
    LET n == Len(bits)
    IN  [j \in 1..((n + LimbBits - 1) \div LimbBits) |->
            LET low == n - LimbBits * j + 1
            IN  intOf(SubSeq(bits, IF low < 1 THEN 1 ELSE low,
                             n - LimbBits * (j - 1)))]

\* the len low bits of the number held in limbs, most significant first
bitsOf(limbs, len) ==
    [i \in 1..len |->
        LET pos == len - i
            j == pos \div LimbBits + 1
        IN  IF j > Len(limbs) THEN 0
            ELSE (limbs[j] \div (2 ^ (pos % LimbBits))) % 2]

\* bits without its leading zeros
trim(bits) ==
    IF \A i \in 1..Len(bits) : bits[i] = 0 THEN <<>>
    ELSE LET first == CHOOSE i \in 1..Len(bits) :
                          bits[i] = 1 /\ \A j \in 1..(i - 1) : bits[j] = 0
         IN  SubSeq(bits, first, Len(bits))

RECURSIVE mulLimbs(_, _, _)
mulLimbs(limbs, k, carry) ==
    IF limbs = <<>> THEN (IF carry = 0 THEN <<>> ELSE <<carry>>)
    ELSE LET t == Head(limbs) * k + carry
         IN  <<t % LimbBase>> \o mulLimbs(Tail(limbs), k, t \div LimbBase)

\* the bits of bits * k + carry, for 0 < k < LimbBase and 0 <= carry < LimbBase
timesSmall(bits, k, carry) ==
    trim(bitsOf(mulLimbs(limbsOf(bits), k, carry), Len(bits) + LimbBits))

\* what is left of r / n behind the first j limbs of its expansion, r < n
RECURSIVE limbRem(_, _, _)
limbRem(r, n, j) ==
    IF j = 0 THEN r ELSE (limbRem(r, n, j - 1) * LimbBase) % n

\* the first k bits of r / n behind the binary point, for r < n
quotientBits(r, n, k) ==
    [i \in 1..k |->
        LET j == (i - 1) \div LimbBits
            digit == (limbRem(r, n, j) * LimbBase) \div n
        IN  (digit \div (2 ^ (LimbBits - 1 - ((i - 1) % LimbBits)))) % 2]

\* what is left of r / n behind those k bits
remainderAfter(r, n, k) ==
    (limbRem(r, n, k \div LimbBits) * (2 ^ (k % LimbBits))) % n

\* the least p with c * 2^p >= n
RECURSIVE leadShift(_, _)
leadShift(c, n) == IF c >= n THEN 0 ELSE 1 + leadShift(2 * c, n)

\* the double nearest to bits * 2^e (+ a non-zero rest below the last bit
\* when sticky), ties to the even significand
roundDouble(bits, e, sticky) ==
    IF Len(bits) <= Precision
    THEN [m |-> bits, e |-> e]
    ELSE LET drop == Len(bits) - Precision
             kept == SubSeq(bits, 1, Precision)
             rest == sticky \/ \E i \in (Precision + 2)..Len(bits) : bits[i] = 1
             up == bits[Precision + 1] = 1 /\ (rest \/ kept[Precision] = 1)
             m == IF up THEN timesSmall(kept, 1, 1) ELSE kept
         IN  IF Len(m) > Precision
             THEN [m |-> SubSeq(m, 1, Precision), e |-> e + drop + 1]
             ELSE [m |-> m, e |-> e + drop]

\* c / n for integers 0 < c <= n
divide(c, n) ==
    LET p == leadShift(c, n)
        r == c * (2 ^ p) - n
    IN  roundDouble(<<1>> \o quotientBits(r, n, Precision), 0 - p - Precision,
                    remainderAfter(r, n, Precision) # 0)

\* x * k for a double x and an integer k > 0
times(x, k) == roundDouble(timesSmall(x.m, k, 0), x.e, FALSE)

\* Math.round(x) for a double 0 < x < 2^52: the integer part, plus 1 when
\* the first bit behind the binary point is set (ties go up)
mathRound(x) ==
    LET f == 0 - x.e
        whole == IF f >= Precision THEN <<>> ELSE SubSeq(x.m, 1, Precision - f)
        half == IF f > Precision THEN 0 ELSE x.m[Precision - f + 1]
    IN  intOf(whole) + half

\* Math.round((correct / attempts) * 100) for 0 < correct <= attempts
percentOf(correct, attempts) == mathRound(times(divide(correct, attempts), 100))

\* percentOf, worked out once for every history of up to MaxAttempts answers
percentTable ==
    [attempts \in 1..MaxAttempts |->
        [correct \in 1..attempts |-> percentOf(correct, attempts)]]

\* sessionHistory.length > 0 ? Math.round((correctCount /
\* sessionHistory.length) * 100) : 0; the quotient 0 / n is 0
accuracyOf(h) ==
    IF Len(h) > 0 /\ correctCount(h) > 0
    THEN IF Len(h) <= MaxAttempts
         THEN percentTable[Len(h)][correctCount(h)]
         ELSE percentOf(correctCount(h), Len(h))
    ELSE 0

\* $: accuracy = ..., the accuracy shown by the result screen
accuracy == accuracyOf(sessionHistory)

----------------------------------------------------------------------------
(* Reading a problem *)

\* The displayed expression, read back: operand, blank, sign, blank, operand,
\* a negative operand in parentheses
blankAt(s) ==
    CHOOSE i \in 1..Len(s) :
        SubSeq(s, i, i) = " " /\ \A j \in 1..(i - 1) : SubSeq(s, j, j) # " "

operandValue(t) ==
    IF Head(t) = "(" THEN parseInt(SubSeq(t, 2, Len(t) - 1)).val
    ELSE parseInt(t).val

displayed(q) ==
    LET i == blankAt(q)
        rest == SubSeq(q, i + 1, Len(q))
        j == blankAt(rest)
    IN  [left |-> operandValue(SubSeq(q, 1, i - 1)),
         sign |-> SubSeq(rest, 1, j - 1),
         right |-> operandValue(SubSeq(rest, j + 1, Len(rest)))]

\* answer is the value of the expression e; a quotient is exact
isValueOf(answer, e) ==
    CASE e.sign = "+" -> answer = e.left + e.right
      [] e.sign = "-" -> answer = e.left - e.right
      [] e.sign = TimesSign -> answer = e.left * e.right
      [] e.sign = DivideSign -> e.right # 0 /\ answer * e.right = e.left
      [] OTHER -> FALSE

\* n is an operand that configuration c can draw
isOperand(n, c) ==
    LET magnitude == IF n < 0 THEN 0 - n ELSE n
    IN  /\ IF c.doubleDigits THEN magnitude \in 10..99 ELSE magnitude \in 1..12
        /\ n < 0 => c.negatives

----------------------------------------------------------------------------
(* Persisted records *)

prependCapped_appends(record, games) ==
    LET all == games \o <<record>>
    IN  SubSeq(all, 1, IF Len(all) < MaxGames THEN Len(all) ELSE MaxGames)

\* [record, ...pastGames].slice(0, 50)
prependCapped(record, games) ==
    LET all == <<record>> \o games
    IN  SubSeq(all, 1, IF Len(all) < MaxGames THEN Len(all) ELSE MaxGames)

\* a list this program saved in an earlier session: most recent first,
\* every record older than the start of this session (time 0)
StoredGames(n) ==
    [i \in 1..n |-> [id |-> 0 - i, date |-> 0 - i, score |-> 0, accuracy |-> 0,
                     config |-> InitialConfig]]

NoBlob == <<>>

\* JSON.stringify(pastGames): a text that JSON.parse reads back as the list
stringify(games) == [wellFormed |-> TRUE, value |-> games]

\* a stored text that is not JSON
CorruptBlob == [wellFormed |-> FALSE, value |-> <<>>]

\* JSON.parse(saved): the value, or a SyntaxError thrown
jsonParse(text) ==
    IF text.wellFormed
    THEN [threw |-> FALSE, value |-> text.value]
    ELSE [threw |-> TRUE, value |-> <<>>]

----------------------------------------------------------------------------
(* Leaderboards *)

LeaderTop == 10

\* parts.join(separator)
RECURSIVE join(_, _)
join(parts, separator) ==
    IF parts = <<>> THEN ""
    ELSE IF Len(parts) = 1 THEN parts[1]
    ELSE parts[1] \o separator \o join(Tail(parts), separator)

configKey_ignoresModifiers(c) ==
    join((IF c.add THEN <<"+">> ELSE <<>>) \o (IF c.sub THEN <<"-">> ELSE <<>>) \o
         (IF c.mul THEN <<TimesSign>> ELSE <<>>) \o
         (IF c.div THEN <<DivideSign>> ELSE <<>>), "")

configKey(c) ==
    LET ops == (IF c.add THEN <<"+">> ELSE <<>>) \o
               (IF c.sub THEN <<"-">> ELSE <<>>) \o
               (IF c.mul THEN <<TimesSign>> ELSE <<>>) \o
               (IF c.div THEN <<DivideSign>> ELSE <<>>)
        mods == (IF c.negatives THEN <<"neg">> ELSE <<>>) \o
                (IF c.doubleDigits THEN <<"2x">> ELSE <<>>)
    IN  join(ops, "") \o
        (IF Len(mods) # 0 THEN " (" \o join(mods, ", ") \o ")" ELSE "")

\* for (const g of games): the groups of the Map, in insertion order
RECURSIVE groupByKey(_, _)
groupByKey(games, map) ==
    IF games = <<>> THEN map
    ELSE LET g == Head(games)
             k == configKey(g.config)
             withKey == IF \E i \in 1..Len(map) : map[i].key = k
                        THEN map
                        ELSE Append(map, [key |-> k, config |-> g.config,
                                          entries |-> <<>>])
         IN  groupByKey(Tail(games),
                        [i \in 1..Len(withKey) |->
                            IF withKey[i].key = k
                            THEN [withKey[i] EXCEPT !.entries = Append(@, g)]
                            ELSE withKey[i]])

byScoreThenDate_oldestFirst(a, b) ==
    IF b.score - a.score # 0 THEN b.score - a.score ELSE a.date - b.date

\* (a, b) => b.score - a.score || new Date(b.date).getTime() - new Date(a.date).getTime()
byScoreThenDate(a, b) ==
    IF b.score - a.score # 0 THEN b.score - a.score ELSE b.date - a.date

\* new Date(g.entries[0]?.date || 0).getTime()
topDate(g) == IF g.entries = <<>> THEN 0 ELSE g.entries[1].date

byTopDate_oldestFirst(a, b) == topDate(a) - topDate(b)

byTopDate(a, b) == topDate(b) - topDate(a)

\* the comparator passed to sort: of the entries of a group, or of the groups
compare(comparator, a, b) ==
    IF comparator = "entries" THEN byScoreThenDate(a, b) ELSE byTopDate(a, b)

\* Array.prototype.sort: a stable sort; compare(a, b) < 0 puts a before b
sortBy(s, comparator) ==
    LET before(j, i) ==
            \/ compare(comparator, s[j], s[i]) < 0
            \/ compare(comparator, s[j], s[i]) = 0 /\ j < i
        place(i) == Cardinality({j \in 1..Len(s) : before(j, i)}) + 1
    IN  [at \in 1..Len(s) |-> s[CHOOSE i \in 1..Len(s) : place(i) = at]]

\* entries.slice(0, 10)
firstOf(s, n) == SubSeq(s, 1, IF Len(s) < n THEN Len(s) ELSE n)

getLeaderboards(games) ==
    LET map == groupByKey(games, <<>>)
        ranked == [i \in 1..Len(map) |->
                      [map[i] EXCEPT !.entries =
                          firstOf(sortBy(@, "entries"), LeaderTop)]]
    IN  sortBy(ranked, "groups")

----------------------------------------------------------------------------
(* Timers *)

\* if (timerInterval) clearInterval(timerInterval)
disarmCountdown_skipped(handle, armed) == armed

disarmCountdown(handle, armed) ==
    IF handle # 0 THEN armed \ {handle} ELSE armed

\* Every feedback delay is shorter than the period of the countdown (1000),
\* so a pending timeout is overtaken by at most one callback of the interval
\* that was armed when it was scheduled, and by none of an interval armed
\* later: due marks the timeouts that fire before the next callback.
allDue(ts) == [i \in 1..Len(ts) |-> [ts[i] EXCEPT !.due = TRUE]]
noneDue(ts) == \A i \in 1..Len(ts) : ~ts[i].due

\* a pending timeout may fire once every timeout scheduled before it with a
\* delay no longer than its own has fired
mayFire(i) ==
    /\ i \in 1..Len(timeouts)
    /\ \A j \in 1..(i - 1) : timeouts[j].delay > timeouts[i].delay

removeAt(s, i) == SubSeq(s, 1, i - 1) \o SubSeq(s, i + 1, Len(s))

----------------------------------------------------------------------------
(* Initial state: the component's declarations, and what the persistence  *)
(* store holds when the page is opened                                     *)

InitWith(blobs) ==
    /\ mounted = FALSE
    /\ thrown = ""
    /\ storage \in blobs
    /\ screen = "menu"
    /\ config = InitialConfig
    /\ score = 0
    /\ timeLeft = RoundTime
    /\ timerInterval = 0
    /\ intervals = {}
    /\ timeouts = <<>>
    /\ currentProblem = [question |-> "", answer |-> 0]
    /\ sessionHistory = <<>>
    /\ pastGames = <<>>
    /\ userInput = ""
    /\ now = 0
    /\ round = 0
    /\ submitted = 0
    /\ answered = 0
    /\ lastToggle = ""

\* $: leaderboards = getLeaderboards(pastGames), the groups of the history screen
leaderboards == getLeaderboards(pastGames)

----------------------------------------------------------------------------
(* Handlers *)

onMount ==
    /\ ~mounted
    /\ mounted' = TRUE
    /\ IF storage # NoBlob
       THEN LET parsed == jsonParse(storage[1])
            IN  IF parsed.threw
                THEN thrown' = "SyntaxError" /\ pastGames' = pastGames
                ELSE thrown' = thrown /\ pastGames' = parsed.value
       ELSE UNCHANGED <<thrown, pastGames>>
    /\ lastToggle' = ""
    /\ UNCHANGED <<storage, screen, config, score, timeLeft, timerInterval,
                   intervals, timeouts, currentProblem, sessionHistory,
                   userInput, now, round, submitted, answered>>

\* the six toggle buttons of the menu screen
ToggleConfig(key) ==
    /\ mounted
    /\ screen = "menu"
    /\ config' = toggleConfig(config, key)
    /\ lastToggle' = key
    /\ UNCHANGED <<mounted, thrown, storage, screen, score, timeLeft, timerInterval,
                   intervals, timeouts, currentProblem, sessionHistory,
                   pastGames, userInput, now, round, submitted, answered>>

startGame_keepsHistory(d) ==
    /\ mounted
    /\ screen \in {"menu", "result"}
    /\ round < MaxRounds
    /\ score' = 0
    /\ timeLeft' = RoundTime
    /\ screen' = "game"
    /\ currentProblem' = generateProblem(config, d[1], d[2], d[3], d[4], d[5])
    /\ userInput' = ""
    /\ answered' = 0
    /\ round' = round + 1
    /\ timerInterval' = round + 1
    /\ intervals' = disarmCountdown(timerInterval, intervals) \cup {round + 1}
    /\ timeouts' = allDue(timeouts)
    /\ lastToggle' = ""
    /\ UNCHANGED <<mounted, thrown, storage, config, pastGames, now, submitted,
                   sessionHistory>>

\* startGame without score = 0
startGame_keepsScore(d) ==
    /\ mounted
    /\ screen \in {"menu", "result"}
    /\ round < MaxRounds
    /\ score' = score
    /\ timeLeft' = RoundTime
    /\ sessionHistory' = <<>>
    /\ screen' = "game"
    /\ currentProblem' = generateProblem(config, d[1], d[2], d[3], d[4], d[5])
    /\ userInput' = ""
    /\ answered' = 0
    /\ round' = round + 1
    /\ timerInterval' = round + 1
    /\ intervals' = disarmCountdown(timerInterval, intervals) \cup {round + 1}
    /\ timeouts' = allDue(timeouts)
    /\ lastToggle' = ""
    /\ UNCHANGED <<mounted, thrown, storage, config, pastGames, now, submitted>>

\* Start Sprint and the Enter key on the menu screen, Play Again on the
\* result screen; the k-th interval armed gets the handle k
startGame(d) ==
    /\ mounted
    /\ screen \in {"menu", "result"}
    /\ round < MaxRounds
    /\ score' = 0
    /\ timeLeft' = RoundTime
    /\ sessionHistory' = <<>>
    /\ screen' = "game"
    /\ currentProblem' = generateProblem(config, d[1], d[2], d[3], d[4], d[5])
    /\ userInput' = ""
    /\ answered' = 0
    /\ round' = round + 1
    /\ timerInterval' = round + 1
    /\ intervals' = disarmCountdown(timerInterval, intervals) \cup {round + 1}
    /\ timeouts' = allDue(timeouts)
    /\ lastToggle' = ""
    /\ UNCHANGED <<mounted, thrown, storage, config, pastGames, now, submitted>>

abandonGame_keepsCountdown ==
    /\ mounted
    /\ screen = "game"
    /\ screen' = "menu"
    /\ lastToggle' = ""
    /\ UNCHANGED <<mounted, thrown, storage, config, score, timeLeft, timerInterval,
                   intervals, timeouts, currentProblem, sessionHistory,
                   pastGames, userInput, now, round, submitted, answered>>

\* the Abandon button of the game screen
abandonGame ==
    /\ mounted
    /\ screen = "game"
    /\ intervals' = disarmCountdown(timerInterval, intervals)
    /\ screen' = "menu"
    /\ lastToggle' = ""
    /\ UNCHANGED <<mounted, thrown, storage, config, score, timeLeft, timerInterval,
                   timeouts, currentProblem, sessionHistory, pastGames,
                   userInput, now, round, submitted, answered>>

\* handleAnswer without its isNaN return
handleAnswer_acceptsUnparsed(typed) ==
    /\ mounted
    /\ screen = "game"
    /\ userInput' = typed
    /\ lastToggle' = ""
    /\ LET parsed == parseInt(typed)
           val == parsed.val
           isCorrect == ~parsed.nan /\ val = currentProblem.answer
       IN  /\ submitted < MaxSubmissions
           /\ sessionHistory' = Append(sessionHistory,
                  [q |-> currentProblem.question,
                   correct |-> currentProblem.answer,
                   user |-> val, isCorrect |-> isCorrect])
           /\ score' = IF isCorrect THEN score + 1 ELSE score
           /\ timeouts' = Append(timeouts,
                  [delay |-> IF isCorrect THEN CorrectDelay ELSE WrongDelay,
                   round |-> round, due |-> FALSE])
           /\ submitted' = submitted + 1
           /\ answered' = answered + 1
    /\ UNCHANGED <<mounted, thrown, storage, screen, config, timeLeft, timerInterval,
                   intervals, currentProblem, pastGames, now, round>>

\* handleAnswer with score++ moved out of the test of isCorrect
handleAnswer_alwaysScores(typed) ==
    /\ mounted
    /\ screen = "game"
    /\ userInput' = typed
    /\ lastToggle' = ""
    /\ LET parsed == parseInt(typed)
           val == parsed.val
           isCorrect == val = currentProblem.answer
       IN  IF parsed.nan
           THEN UNCHANGED <<sessionHistory, score, timeouts, submitted, answered>>
           ELSE /\ submitted < MaxSubmissions
                /\ sessionHistory' = Append(sessionHistory,
                       [q |-> currentProblem.question,
                        correct |-> currentProblem.answer,
                        user |-> val, isCorrect |-> isCorrect])
                /\ score' = score + 1
                /\ timeouts' = Append(timeouts,
                       [delay |-> IF isCorrect THEN CorrectDelay ELSE WrongDelay,
                        round |-> round, due |-> FALSE])
                /\ submitted' = submitted + 1
                /\ answered' = answered + 1
    /\ UNCHANGED <<mounted, thrown, storage, screen, config, timeLeft, timerInterval,
                   intervals, currentProblem, pastGames, now, round>>

\* the form of the game screen; typed is the text bound to userInput
handleAnswer(typed) ==
    /\ mounted
    /\ screen = "game"
    /\ userInput' = typed
    /\ lastToggle' = ""
    /\ LET parsed == parseInt(typed)
           val == parsed.val
           isCorrect == val = currentProblem.answer
       IN  IF parsed.nan
           THEN UNCHANGED <<sessionHistory, score, timeouts, submitted, answered>>
           ELSE /\ submitted < MaxSubmissions
                /\ sessionHistory' = Append(sessionHistory,
                       [q |-> currentProblem.question,
                        correct |-> currentProblem.answer,
                        user |-> val, isCorrect |-> isCorrect])
                /\ score' = IF isCorrect THEN score + 1 ELSE score
                /\ timeouts' = Append(timeouts,
                       [delay |-> IF isCorrect THEN CorrectDelay ELSE WrongDelay,
                        round |-> round, due |-> FALSE])
                /\ submitted' = submitted + 1
                /\ answered' = answered + 1
    /\ UNCHANGED <<mounted, thrown, storage, screen, config, timeLeft, timerInterval,
                   intervals, currentProblem, pastGames, now, round>>

\* a feedback timeout fires: setTimeout(generateProblem, 150) or
\* setTimeout(() => { shaking = false; generateProblem(); }, 400)
feedbackFires(i, d) ==
    /\ mayFire(i)
    /\ timeouts' = removeAt(timeouts, i)
    /\ currentProblem' = generateProblem(config, d[1], d[2], d[3], d[4], d[5])
    /\ userInput' = ""
    /\ answered' = 0
    /\ lastToggle' = ""
    /\ UNCHANGED <<mounted, thrown, storage, screen, config, score, timeLeft,
                   timerInterval, intervals, sessionHistory, pastGames, now,
                   round, submitted>>

\* Date.now() is read here only; two reads are at least a whole round
\* apart, so each returns a later time than the one before
endGame_keepsCountdown ==
    /\ now' = now + 1
    /\ pastGames' = prependCapped(
           [id |-> now', date |-> now', score |-> score,
            accuracy |-> accuracyOf(sessionHistory), config |-> config],
           pastGames)
    /\ storage' = <<stringify(pastGames')>>
    /\ screen' = "result"
    /\ UNCHANGED intervals

\* endGame storing the default configuration in place of { ...config }
endGame_defaultConfig ==
    /\ intervals' = disarmCountdown(timerInterval, intervals)
    /\ now' = now + 1
    /\ pastGames' = prependCapped(
           [id |-> now', date |-> now', score |-> score,
            accuracy |-> accuracyOf(sessionHistory), config |-> InitialConfig],
           pastGames)
    /\ storage' = <<stringify(pastGames')>>
    /\ screen' = "result"

endGame ==
    /\ intervals' = disarmCountdown(timerInterval, intervals)
    /\ now' = now + 1
    /\ pastGames' = prependCapped(
           [id |-> now', date |-> now', score |-> score,
            accuracy |-> accuracyOf(sessionHistory), config |-> config],
           pastGames)
    /\ storage' = <<stringify(pastGames')>>
    /\ screen' = "result"

tick_endsEarly(handle) ==
    /\ handle \in intervals
    /\ noneDue(timeouts)
    /\ timeouts' = allDue(timeouts)
    /\ timeLeft' = timeLeft - 1
    /\ lastToggle' = ""
    /\ IF timeLeft' <= 1
       THEN endGame
       ELSE UNCHANGED <<intervals, pastGames, storage, screen, now>>
    /\ UNCHANGED <<mounted, thrown, config, score, timerInterval, currentProblem,
                   sessionHistory, userInput, round, submitted, answered>>

\* the callback of the interval armed by startGame
\* tick with if (timeLeft < 0) endGame()
tick_endsLate(handle) ==
    /\ handle \in intervals
    /\ noneDue(timeouts)
    /\ timeouts' = allDue(timeouts)
    /\ timeLeft' = timeLeft - 1
    /\ lastToggle' = ""
    /\ IF timeLeft' < 0
       THEN endGame
       ELSE UNCHANGED <<intervals, pastGames, storage, screen, now>>
    /\ UNCHANGED <<mounted, thrown, config, score, timerInterval, currentProblem,
                   sessionHistory, userInput, round, submitted, answered>>

tick(handle) ==
    /\ handle \in intervals
    /\ noneDue(timeouts)
    /\ timeouts' = allDue(timeouts)
    /\ timeLeft' = timeLeft - 1
    /\ lastToggle' = ""
    /\ IF timeLeft' <= 0
       THEN endGame
       ELSE UNCHANGED <<intervals, pastGames, storage, screen, now>>
    /\ UNCHANGED <<mounted, thrown, config, score, timerInterval, currentProblem,
                   sessionHistory, userInput, round, submitted, answered>>

\* on:click={() => screen = 'history'} on the menu screen
viewHistory ==
    /\ mounted
    /\ screen = "menu"
    /\ screen' = "history"
    /\ lastToggle' = ""
    /\ UNCHANGED <<mounted, thrown, storage, config, score, timeLeft, timerInterval,
                   intervals, timeouts, currentProblem, sessionHistory,
                   pastGames, userInput, now, round, submitted, answered>>

\* on:click={() => screen = 'menu'} on the result screen
settings ==
    /\ mounted
    /\ screen = "result"
    /\ screen' = "menu"
    /\ lastToggle' = ""
    /\ UNCHANGED <<mounted, thrown, storage, config, score, timeLeft, timerInterval,
                   intervals, timeouts, currentProblem, sessionHistory,
                   pastGames, userInput, now, round, submitted, answered>>

\* on:click={() => screen = 'menu'} on the history screen
back ==
    /\ mounted
    /\ screen = "history"
    /\ screen' = "menu"
    /\ lastToggle' = ""
    /\ UNCHANGED <<mounted, thrown, storage, config, score, timeLeft, timerInterval,
                   intervals, timeouts, currentProblem, sessionHistory,
                   pastGames, userInput, now, round, submitted, answered>>

----------------------------------------------------------------------------
(* The session: rounds with submissions under the initial configuration,   *)
(* on top of a full stored list                                            *)

\* draws of Math.random() made by one call of generateProblem
RoundDraws == {<<0, 0, 0, 0, 0>>, <<RandSteps - 1, 0, 0, RandSteps - 1, 0>>}

\* texts typed into the answer field
AnswerInputs == {"2", "abc", ""}

Init == InitWith({<<stringify(StoredGames(MaxGames))>>})

Next ==
    \/ onMount
    \/ \E d \in RoundDraws : startGame(d)
    \/ abandonGame
    \/ \E typed \in AnswerInputs : handleAnswer(typed)
    \/ \E i \in 1..Len(timeouts), d \in RoundDraws : feedbackFires(i, d)
    \/ \E handle \in intervals : tick(handle)
    \/ viewHistory
    \/ settings
    \/ back

Spec == Init /\ [][Next]_vars

----------------------------------------------------------------------------
(* The configuration menu: every flag toggled in every order *)

Keys == {OpKeys[i] : i \in 1..4} \cup ModKeys

NextConfig ==
    \/ onMount
    \/ \E key \in Keys : ToggleConfig(key)
    \/ viewHistory
    \/ back

SpecConfig == Init /\ [][NextConfig]_vars

----------------------------------------------------------------------------
(* The record list: unanswered rounds under several configurations, on    *)
(* top of an absent, an almost full and a full stored list                 *)

InitRecords ==
    InitWith({NoBlob} \cup {<<stringify(StoredGames(n))>> : n \in {MaxGames - 1, MaxGames}})

\* the flags toggled between the rounds
RecordKeys == {"div", "negatives"}

NextRecords ==
    \/ onMount
    \/ \E key \in RecordKeys : ToggleConfig(key)
    \/ startGame(<<0, 0, 0, 0, 0>>)
    \/ abandonGame
    \/ \E handle \in intervals : tick(handle)
    \/ viewHistory
    \/ settings
    \/ back

SpecRecords == InitRecords /\ [][NextRecords]_vars

----------------------------------------------------------------------------
(* The countdown: rounds played to their end or abandoned, with correct    *)
(* and wrong submissions, the callbacks that are due firing                *)

InitCountdown == InitWith({NoBlob})

NextCountdown ==
    \/ onMount
    \/ startGame(<<0, 0, 0, 0, 0>>)
    \/ abandonGame
    \/ \E typed \in {"2", "3"} : handleAnswer(typed)
    \/ \E i \in 1..Len(timeouts) : feedbackFires(i, <<0, 0, 0, 0, 0>>)
    \/ \E handle \in intervals : tick(handle)
    \/ settings

\* The browser runs every callback that is due: an armed interval keeps
\* firing, a pending timeout fires.
Fairness ==
    /\ WF_vars(\E handle \in intervals : tick(handle))
    /\ WF_vars(\E i \in 1..Len(timeouts) : feedbackFires(i, <<0, 0, 0, 0, 0>>))

SpecCountdown == InitCountdown /\ [][NextCountdown]_vars /\ Fairness

----------------------------------------------------------------------------
(* The history screen: the page is opened on stored lists of every make-up *)

\* the configurations of the stored records
BoardConfigs ==
    <<InitialConfig, [InitialConfig EXCEPT !.negatives = TRUE],
      [InitialConfig EXCEPT !.div = TRUE]>>

boardRecord(when, points, c) ==
    [id |-> when, date |-> when, score |-> points, accuracy |-> 100, config |-> c]

\* every list of up to MaxShortList records of two configurations and two
\* scores, saved at distinct times in any order
ShortLists ==
    UNION {
        {[i \in 1..n |-> boardRecord(0 - when[i], 10 * points[i], BoardConfigs[c[i]])] :
            when \in {f \in [1..n -> 1..n] : \A i, j \in 1..n : f[i] = f[j] => i = j},
            points \in [1..n -> 1..2], c \in [1..n -> 1..2]} :
        n \in 0..MaxShortList}

ScorePatterns == 1..4
scoreAt(pattern, i, n) ==
    CASE pattern = 1 -> 10
      [] pattern = 2 -> i % 3
      [] pattern = 3 -> i
      [] pattern = 4 -> n - i

\* lists of more than LeaderTop records: scores equal, mixed, growing and
\* falling with age, most recent record first or last, all records of one
\* configuration, or the record at position other of another
LongLists ==
    {[i \in 1..n |->
        boardRecord(IF recentFirst THEN 0 - i ELSE i - n - 1,
                    scoreAt(pattern, i, n),
                    BoardConfigs[IF i = other THEN 3 ELSE 1])] :
        n \in {LeaderTop + 1, LeaderTop + 2}, pattern \in ScorePatterns,
        recentFirst \in BOOLEAN, other \in {0, 1, LeaderTop + 1}}

InitHistory ==
    InitWith({NoBlob, <<CorruptBlob>>}
             \cup {<<stringify(games)>> : games \in ShortLists \cup LongLists})

NextHistory ==
    \/ onMount
    \/ viewHistory
    \/ back

SpecHistory == InitHistory /\ [][NextHistory]_vars

----------------------------------------------------------------------------
(* The generator: the first problem of a round, under every configuration  *)
(* and every draw                                                          *)

ValidConfigs ==
    {c \in [{OpKeys[i] : i \in 1..4} \cup ModKeys -> BOOLEAN] : activeOps(c) >= 1}

InitGenerator ==
    /\ mounted = TRUE
    /\ thrown = ""
    /\ storage = NoBlob
    /\ screen = "menu"
    /\ config \in ValidConfigs
    /\ score = 0
    /\ timeLeft = RoundTime
    /\ timerInterval = 0
    /\ intervals = {}
    /\ timeouts = <<>>
    /\ currentProblem = [question |-> "", answer |-> 0]
    /\ sessionHistory = <<>>
    /\ pastGames = <<>>
    /\ userInput = ""
    /\ now = 0
    /\ round = 0
    /\ submitted = 0
    /\ answered = 0
    /\ lastToggle = ""

NextGenerator ==
    \E d \in Draws \X Draws \X Draws \X Draws \X Draws :
        round = 0 /\ startGame(d)

SpecGenerator == InitGenerator /\ [][NextGenerator]_vars

----------------------------------------------------------------------------
(* The accuracy of a round: the last tick of rounds with every number of   *)
(* attempts up to MaxAttempts and every number of correct ones             *)

\* a session history of n answers to "1 + 1", c of them correct, the correct
\* ones first or last
attemptsOf(c, n, correctFirst) ==
    [i \in 1..n |->
        LET isCorrect == IF correctFirst THEN i <= c ELSE i > n - c
        IN  [q |-> "1 + 1", correct |-> 2, user |-> IF isCorrect THEN 2 ELSE 3,
             isCorrect |-> isCorrect]]

InitAccuracy ==
    /\ mounted = TRUE
    /\ thrown = ""
    /\ storage = NoBlob
    /\ screen = "game"
    /\ config = InitialConfig
    /\ timeLeft = 1
    /\ timerInterval = 1
    /\ intervals = {1}
    /\ timeouts = <<>>
    /\ currentProblem = generateProblem(InitialConfig, 0, 0, 0, 0, 0)
    /\ \E n \in 0..MaxAttempts : \E c \in 0..n : \E correctFirst \in BOOLEAN :
           /\ sessionHistory = attemptsOf(c, n, correctFirst)
           /\ score = c
           /\ submitted = n
    /\ pastGames = <<>>
    /\ userInput = ""
    /\ now = 0
    /\ round = 1
    /\ answered = 0
    /\ lastToggle = ""

NextAccuracy == \E handle \in intervals : tick(handle)

SpecAccuracy == InitAccuracy /\ [][NextAccuracy]_vars

----------------------------------------------------------------------------
(* Properties *)

\* C1: in every reachable state at least one of the four operator flags
\* add, sub, mul, div is true.
C1_OperatorActive == config.add \/ config.sub \/ config.mul \/ config.div

\* toggleConfig('add') has just run with add the only operator left
C1_Witness ==
    /\ lastToggle = "add"
    /\ config.add /\ ~config.sub /\ ~config.mul /\ ~config.div

soleOperator(c, key) ==
    /\ key \in {"add", "sub", "mul", "div"}
    /\ c[key]
    /\ \A other \in {"add", "sub", "mul", "div"} \ {key} : ~c[other]

\* C2: toggleConfig on the operator flag that is the only true operator
\* flag changes none of the six flags; every other toggleConfig call flips
\* the named flag and leaves the other five as they were.
C2_ToggleEffect ==
    [][\A key \in Keys :
          lastToggle' = key =>
              IF soleOperator(config, key)
              THEN config' = config
              ELSE /\ config'[key] = ~config[key]
                   /\ \A other \in Keys \ {key} : config'[other] = config[other]
      ]_vars

\* toggleConfig('div') was refused with div the only operator left, after
\* both modifier flags had been switched on
C2_Witness ==
    /\ lastToggle = "div"
    /\ soleOperator(config, "div")
    /\ config.negatives /\ config.doubleDigits

\* C3: at most one countdown interval is armed in every reachable state,
\* also after startGame ran with a handle left over from an earlier round.
C3_OneCountdown == Cardinality(intervals) <= 1

\* the second round has just been started over the handle of the first
C3_Witness ==
    /\ round = 2
    /\ screen = "game"
    /\ timeLeft = RoundTime
    /\ intervals = {2}

\* C4: no feedback timeout fires after the round that scheduled it was
\* abandoned or ended: a timeout only ever fires on the game screen of the
\* round in which it was scheduled.
C4_NoStaleFeedback ==
    [][\A i \in 1..Len(timeouts) :
          timeouts' = removeAt(timeouts, i) =>
              (screen = "game" /\ timeouts[i].round = round)
      ]_vars

\* C5: between a parsed submission and the feedback timeout that replaces
\* the Problem no second submission is accepted: a Problem gets at most one
\* HistoryEntry.
C5_OneSubmissionPerProblem == answered <= 1

\* C6: the callback that brings the countdown to zero creates one
\* GameRecord with the round's score and accuracy at the head of the list,
\* followed by the previous list cut so that at most 50 remain, disarms the
\* countdown and shows the result screen; a record is created by no other
\* step, so by no later step of the same round.
C6_RoundEndRecord ==
    [][/\ (timeLeft' = timeLeft - 1 /\ timeLeft' <= 0) =>
            /\ screen = "game" /\ screen' = "result"
            /\ intervals' = {}
            /\ Len(pastGames') =
                   (IF Len(pastGames) < MaxGames THEN Len(pastGames) + 1 ELSE MaxGames)
            /\ pastGames'[1].score = score
            /\ pastGames'[1].accuracy = accuracyOf(sessionHistory)
            /\ \A i \in 2..Len(pastGames') : pastGames'[i] = pastGames[i - 1]
            /\ storage' = <<stringify(pastGames')>>
       /\ (mounted /\ pastGames' # pastGames) =>
            (screen = "game" /\ timeLeft = 1 /\ timeLeft' = 0)
      ]_vars

\* a round with one correct and one wrong answer has ended on top of a
\* full stored list
C6_Witness ==
    /\ screen = "result"
    /\ timeLeft = 0
    /\ intervals = {}
    /\ Len(pastGames) = MaxGames
    /\ pastGames[1].score = 1
    /\ pastGames[1].accuracy = 50
    /\ pastGames[2].id < 0

\* C7: abandoning a round shows the menu, disarms the countdown and leaves
\* the record list as it was, and no step taken outside the game screen
\* changes the record list afterwards.
C7_AbandonKeepsRecords ==
    [][/\ (screen = "game" /\ screen' = "menu") =>
            /\ intervals' = {}
            /\ pastGames' = pastGames
            /\ storage' = storage
       /\ (mounted /\ screen \in {"menu", "history"}) => pastGames' = pastGames
      ]_vars

\* a round with an answer in it was abandoned before the countdown ran out,
\* and the history screen was opened afterwards
C7_Witness ==
    /\ screen = "history"
    /\ round = 1
    /\ timeLeft > 0 /\ timeLeft < RoundTime
    /\ sessionHistory # <<>>
    /\ intervals = {}
    /\ pastGames = StoredGames(MaxGames)
    /\ storage = <<stringify(pastGames)>>

\* C8: every start of a round, from the menu or from the result screen,
\* sets score to 0, the timer to 60 and the session history to empty,
\* generates a Problem from the configuration, shows the game screen and
\* leaves exactly one countdown armed.
C8_StartResets ==
    [][round' # round =>
          /\ screen \in {"menu", "result"}
          /\ screen' = "game"
          /\ score' = 0
          /\ timeLeft' = RoundTime
          /\ sessionHistory' = <<>>
          /\ \E d \in RoundDraws :
                 currentProblem' = generateProblem(config, d[1], d[2], d[3], d[4], d[5])
          /\ Cardinality(intervals') = 1
          /\ intervals' = {timerInterval'}
      ]_vars

\* the second round has just been started after a first round that ended
\* with a score
C8_Witness ==
    /\ round = 2
    /\ screen = "game"
    /\ timeLeft = RoundTime
    /\ score = 0
    /\ sessionHistory = <<>>
    /\ pastGames # <<>>
    /\ pastGames[1].id > 0
    /\ pastGames[1].score > 0

\* C9: the screen starts in menu and changes only from menu to game
\* (start), game to result (the callback that brings the countdown to
\* zero), game to menu (abandon), result to game (again), result to menu
\* (settings), menu to history and history to menu; no interval callback or
\* feedback timeout changes the screen while it is menu, result or history.
C9_ScreenTransitions ==
    /\ screen = "menu"
    /\ [][/\ screen' # screen =>
               \/ screen = "menu" /\ screen' = "game" /\ round' = round + 1
               \/ /\ screen = "game" /\ screen' = "result"
                  /\ timeLeft' = timeLeft - 1 /\ timeLeft' = 0
               \/ screen = "game" /\ screen' = "menu" /\ timeLeft' = timeLeft
               \/ screen = "result" /\ screen' = "game" /\ round' = round + 1
               \/ screen = "result" /\ screen' = "menu"
               \/ screen = "menu" /\ screen' = "history"
               \/ screen = "history" /\ screen' = "menu"
          /\ (/\ screen # "game"
              /\ (timeLeft' = timeLeft - 1 \/ Len(timeouts') < Len(timeouts)))
                 => screen' = screen
         ]_vars

\* a round with an answer in it has ended, its feedback timeout has fired,
\* and the menu and then the history screen were opened
C9_Witness ==
    /\ screen = "history"
    /\ timeLeft = 0
    /\ pastGames # <<>>
    /\ sessionHistory # <<>>
    /\ timeouts = <<>>
    /\ userInput = ""

\* C10: the record list never holds more than 50 records and is ordered
\* most recent first; a round that ends with 50 records in the list evicts
\* the last, oldest one and keeps the other 49 in order behind the new one.
C10_RecordListCapped ==
    /\ [](/\ Len(pastGames) <= MaxGames
          /\ \A i \in 1..Len(pastGames) : \A j \in (i + 1)..Len(pastGames) :
                 /\ pastGames[i].id > pastGames[j].id
                 /\ pastGames[i].date > pastGames[j].date)
    /\ [][(Len(pastGames) = MaxGames /\ pastGames' # pastGames) =>
             /\ Len(pastGames') = MaxGames
             /\ pastGames'[1].id > pastGames[1].id
             /\ \A i \in 2..MaxGames : pastGames'[i] = pastGames[i - 1]
         ]_vars

\* a round ended with 50 stored records in the list: the oldest was evicted
C10_Witness ==
    /\ Len(pastGames) = MaxGames
    /\ pastGames[1].id = 1
    /\ pastGames[MaxGames].id = 1 - MaxGames

\* C11: submitting a text that does not parse as an integer ("abc", or the
\* empty text) changes nothing but the text shown in the field: score,
\* session history and the problem on screen stay as they are and no feedback
\* timeout is scheduled.  (A step of the same round that puts an unparseable
\* text into the field without removing a timeout is such a submission.)
C11_UnparsedIsNoOp ==
    [][(/\ userInput' # userInput
        /\ parseInt(userInput').nan
        /\ round' = round
        /\ Len(timeouts') >= Len(timeouts))
       => /\ score' = score
          /\ sessionHistory' = sessionHistory
          /\ currentProblem' = currentProblem
          /\ timeouts' = timeouts
          /\ screen' = screen
          /\ timeLeft' = timeLeft
         ]_vars

\* "abc" was submitted in a round that has no submission yet
C11_Witness ==
    /\ screen = "game"
    /\ userInput = "abc"
    /\ parseInt(userInput).nan
    /\ sessionHistory = <<>>
    /\ score = 0
    /\ timeouts = <<>>
    /\ currentProblem.question # ""

\* C12: within a round, a step either leaves the session history and the
\* score alone and schedules no feedback timeout, or it is a parsed
\* submission: it appends exactly one entry behind the unchanged earlier
\* entries, holding the question and the answer of the problem on screen,
\* the parsed value and isCorrect = (value = answer), it adds 1 to the score
\* when isCorrect and nothing otherwise, and it schedules one timeout.
C12_SubmissionRecorded ==
    [][round' = round =>
          \/ /\ sessionHistory' = sessionHistory
             /\ score' = score
             /\ Len(timeouts') <= Len(timeouts)
          \/ LET parsed == parseInt(userInput')
                 entry == [q |-> currentProblem.question,
                           correct |-> currentProblem.answer,
                           user |-> parsed.val,
                           isCorrect |-> parsed.val = currentProblem.answer]
             IN  /\ ~parsed.nan
                 /\ Len(sessionHistory') = Len(sessionHistory) + 1
                 /\ SubSeq(sessionHistory', 1, Len(sessionHistory)) = sessionHistory
                 /\ sessionHistory'[Len(sessionHistory')] = entry
                 /\ score' = IF entry.isCorrect THEN score + 1 ELSE score
                 /\ Len(timeouts') = Len(timeouts) + 1
                 /\ currentProblem' = currentProblem
         ]_vars

\* a correct submission and then a wrong one, both recorded, one scored
C12_Witness ==
    /\ screen = "game"
    /\ Len(sessionHistory) = 2
    /\ sessionHistory[1].isCorrect
    /\ sessionHistory[1].user = sessionHistory[1].correct
    /\ ~sessionHistory[2].isCorrect
    /\ sessionHistory[2].user # sessionHistory[2].correct
    /\ score = 1

\* C13: the accuracy stored in the record of a round that ended, and the
\* accuracy shown by its summary, is the integer nearest to 100 * correct /
\* attempts with ties going up, lies in 0..100, and is 0 for an empty session
\* history.
C13_AccuracyRounded ==
    (screen = "result" /\ pastGames # <<>>) =>
        LET n == Len(sessionHistory)
            c == correctCount(sessionHistory)
            a == pastGames[1].accuracy
        IN  /\ a \in 0..100
            /\ accuracy = a
            /\ n = 0 => a = 0
            /\ n > 0 => /\ 2 * n * a <= 200 * c + n
                        /\ 200 * c + n < 2 * n * (a + 1)

\* C14: under every configuration with an operator and for every draw, the
\* answer of the generated problem is the value of the expression it
\* displays, whose operands are ones the configuration can draw; for a
\* division the divisor is such an operand, not 0, the answer is such an
\* operand, and the displayed dividend is answer * divisor, so that the
\* quotient has no remainder.
C14_AnswerIsValue ==
    screen = "game" =>
        LET e == displayed(currentProblem.question)
        IN  /\ isValueOf(currentProblem.answer, e)
            /\ isOperand(e.right, config)
            /\ IF e.sign = DivideSign
               THEN /\ isOperand(currentProblem.answer, config)
                    /\ e.left = currentProblem.answer * e.right
               ELSE isOperand(e.left, config)

\* a division of a negative dividend by a negative divisor
C14_Witness ==
    /\ screen = "game"
    /\ config.div /\ config.negatives
    /\ LET e == displayed(currentProblem.question)
       IN  /\ e.sign = DivideSign
           /\ e.left < 0
           /\ e.right < -1
           /\ currentProblem.answer > 1
           /\ currentProblem.answer * e.right = e.left

\* the records of the list whose configuration has key k
recordsWithKey(k) ==
    {pastGames[i] : i \in {j \in 1..Len(pastGames) : configKey(pastGames[j].config) = k}}

\* a is ranked no lower than b: a higher score, or the same score and no
\* earlier a date
ranksNoLower(a, b) == a.score > b.score \/ (a.score = b.score /\ a.date >= b.date)

\* C15: in every group of the leaderboards the entries are in order of
\* score, highest first, entries of equal score in order of date, most
\* recent first; the entries are records of the group, each once, all of them
\* when the group has at most 10 and 10 of them otherwise, and no record of
\* the group that is left out is ranked above an entry.
C15_GroupsRanked ==
    \A g \in 1..Len(leaderboards) :
        LET entries == leaderboards[g].entries
            members == recordsWithKey(leaderboards[g].key)
            shown == {entries[i] : i \in 1..Len(entries)}
        IN  /\ \A i, j \in 1..Len(entries) :
                   i < j => ranksNoLower(entries[i], entries[j])
            /\ shown \subseteq members
            /\ Cardinality(shown) = Len(entries)
            /\ Len(entries) = IF Cardinality(members) <= LeaderTop
                              THEN Cardinality(members) ELSE LeaderTop
            /\ \A r \in members \ shown : \A e \in shown :
                   ranksNoLower(e, r) /\ ~ranksNoLower(r, e)

\* a group of 12 records is cut to 10 entries that are not the first 10 of
\* the list, with two entries of equal score ranked by date
C15_Witness ==
    /\ mounted
    /\ \E g \in 1..Len(leaderboards) :
           LET entries == leaderboards[g].entries
           IN  /\ Cardinality(recordsWithKey(leaderboards[g].key)) = LeaderTop + 2
               /\ Len(entries) = LeaderTop
               /\ entries # SubSeq(pastGames, 1, LeaderTop)
               /\ \E i \in 1..(LeaderTop - 1) :
                      /\ entries[i].score = entries[i + 1].score
                      /\ entries[i].date > entries[i + 1].date

C17_LoadNeverFails ==
    mounted =>
        /\ thrown = ""
        /\ (storage = NoBlob \/ jsonParse(storage[1]).threw) =>
               /\ pastGames = <<>>
               /\ screen \in {"menu", "history"}

\* C18: the configuration does not change while a round is played, and the
\* record created when the round ends holds the configuration of that
\* moment, so the one in force when the round started, in front of the
\* earlier records, which are kept as they are; a step that changes the
\* configuration afterwards changes no record of the list, in memory or
\* stored, and so the leaderboard key of no record.
C18_ConfigSnapshot ==
    [][/\ screen = "game" => config' = config
       /\ (mounted /\ pastGames' # pastGames) =>
              /\ pastGames'[1].config = config
              /\ \A i \in 2..Len(pastGames') : pastGames'[i] = pastGames[i - 1]
       /\ config' # config =>
              /\ pastGames' = pastGames
              /\ storage' = storage
              /\ \A i \in 1..Len(pastGames) :
                     configKey(pastGames'[i].config) = configKey(pastGames[i].config)
      ]_vars

\* a round was played with division on; division was then toggled off on the
\* menu, and the record, in memory and stored, still has it on
C18_Witness ==
    /\ screen = "menu"
    /\ lastToggle = "div"
    /\ ~config.div
    /\ pastGames # <<>>
    /\ pastGames[1].id > 0
    /\ pastGames[1].config.div
    /\ storage = <<stringify(pastGames)>>

\* C19: the timer stays within 0..60, it is 0 on the result screen and at
\* least 1 while a round is played, and an interval is armed exactly while a
\* round is played; the timer changes only by a tick taking 1 off or by the
\* start of a round setting it to 60; the result screen is entered only from
\* a round by the tick that takes the timer from 1 to 0, the 60th of the
\* round; and when the callbacks that are due keep firing, every round that
\* is played leads to the result screen, or to the menu when it is abandoned.
C19_RoundEnds ==
    /\ [](/\ timeLeft \in 0..RoundTime
          /\ intervals # {} <=> screen = "game"
          /\ screen = "result" => timeLeft = 0
          /\ screen = "game" => timeLeft >= 1)
    /\ [][timeLeft' # timeLeft =>
             \/ timeLeft' = timeLeft - 1 /\ screen = "game"
             \/ timeLeft' = RoundTime /\ screen' = "game" /\ round' = round + 1
         ]_vars
    /\ [][(screen' = "result" /\ screen # "result") =>
             screen = "game" /\ timeLeft = 1 /\ timeLeft' = 0
         ]_vars
    /\ (screen = "game") ~> (screen = "result" \/ screen = "menu")

\* the second round ran its 60 ticks with one submission and is on the
\* result screen with its countdown disarmed
C19_Witness ==
    /\ screen = "result"
    /\ round = 2
    /\ timeLeft = 0
    /\ intervals = {}
    /\ Len(sessionHistory) = 1
    /\ pastGames[1].id = 2

AllConfigs == [{OpKeys[i] : i \in 1..4} \cup ModKeys -> BOOLEAN]

\* two assignments of the six flags have the same key exactly when they are
\* the same assignment
keyIsInjective ==
    \A c1 \in AllConfigs : \A c2 \in AllConfigs :
        configKey(c1) = configKey(c2) <=> c1 = c2

\* the groups of the record list before they are sorted and cut
groups == groupByKey(pastGames, <<>>)

\* the groups of map that hold the record r
groupsOf(map, r) ==
    {g \in 1..Len(map) : \E e \in 1..Len(map[g].entries) : map[g].entries[e] = r}

\* C20: the key of a configuration is the same for the same six flags and
\* differs for any two assignments that differ; every record of the list
\* is in exactly one group, two records are in the same group exactly when
\* their configurations have the same six flags, every group has the key of
\* its records and the configuration of the first record of the list with
\* that key, and the leaderboards show these groups, none twice.
C20_GroupsByConfig ==
    /\ keyIsInjective
    /\ \A map \in {groups} : \A shown \in {leaderboards} :
        /\ \A i \in 1..Len(pastGames) :
               Cardinality(groupsOf(map, pastGames[i])) = 1
        /\ \A i, j \in 1..Len(pastGames) :
               groupsOf(map, pastGames[i]) = groupsOf(map, pastGames[j])
                   <=> pastGames[i].config = pastGames[j].config
        /\ \A g \in 1..Len(map) :
               LET first == CHOOSE i \in 1..Len(pastGames) :
                                /\ configKey(pastGames[i].config) = map[g].key
                                /\ \A j \in 1..(i - 1) :
                                       configKey(pastGames[j].config) # map[g].key
               IN  /\ map[g].config = pastGames[first].config
                   /\ map[g].entries[1] = pastGames[first]
                   /\ \A e \in 1..Len(map[g].entries) :
                          configKey(map[g].entries[e].config) = map[g].key
        /\ Len(shown) = Len(map)
        /\ {[key |-> shown[g].key, config |-> shown[g].config] : g \in 1..Len(shown)}
             = {[key |-> map[g].key, config |-> map[g].config] : g \in 1..Len(map)}

\* three records: the first and the last of one configuration, the second
\* of a configuration that differs in the negatives flag only
C20_Witness ==
    /\ mounted
    /\ Len(pastGames) = 3
    /\ pastGames[1].config = pastGames[3].config
    /\ pastGames[2].config = [pastGames[1].config EXCEPT !.negatives = ~@]
    /\ Len(groups) = 2
    /\ Len(groups[1].entries) = 2
    /\ Len(leaderboards) = 2

\* C21: in every state the score is the number of entries of the session
\* history with isCorrect set, so never more than the number of entries;
\* and on the result screen the record of the round that ended, the first of
\* the list, holds that number as its score.
C21_ScoreCountsCorrect ==
    /\ score = correctCount(sessionHistory)
    /\ score <= Len(sessionHistory)
    /\ screen = "result" =>
           /\ pastGames # <<>>
           /\ pastGames[1].score = correctCount(sessionHistory)
           /\ pastGames[1].score <= Len(sessionHistory)

\* a round ended with a correct and a wrong submission: score 1 of 2
\* attempts, in the session and in the record
C21_Witness ==
    /\ screen = "result"
    /\ Len(sessionHistory) = 2
    /\ correctCount(sessionHistory) = 1
    /\ score = 1
    /\ pastGames[1].id >= 1
    /\ pastGames[1].score = 1
    /\ pastGames[1].accuracy = 50

====
